---- MODULE Spec2Model ----
(***************************************************************************)
(* Model of the match / level / scoring state machine of                   *)
(* train_color_matcher.py (classes Game and ModernGame).                   *)
(*                                                                         *)
(* The game object is modelled field by field.  Methods are operators on a *)
(* record g holding the fields (the python "self"); an action reads the    *)
(* fields into a record, applies the handler and stores the result.        *)
(* Rendering, sound, particles, messages and language strings are not      *)
(* modelled.  A train is modelled by its colour and its `moving` flag; its *)
(* position is abstracted: a moving train leaves the screen in some later  *)
(* frame, the one that started first (and lies furthest left) first.       *)
(***************************************************************************)
EXTENDS Integers, Sequences, FiniteSets, TLC

\* ------------------------------------------------------------------ bounds
\* random.choice draws are bounded: a queue's colours cycle through the
\* level's colours starting at an offset 0..MaxSeed.
MaxSeed == 0
\* mistakes is unbounded in zen mode; wrong matches are offered while
\* mistakes < MistakeCap.
MistakeCap == 10
\* correct matches are offered while score < MaxScore.
MaxScore == 1
\* in SpecLevels wrong matches are offered while mistakes < LevelMistakeCap
\* and score < MaxScore.
LevelMistakeCap == 2

\* configured integers are drawn from ConfigSpan below to ConfigSpan above
\* each limit of the validator (800, 600, 0, 255).
ConfigSpan == 1

\* wrap_text is given every text of at most MaxTextLen characters and every
\* max_width up to MaxWidth.
MaxTextLen == 5
MaxWidth == 6

\* calculate_accuracy is given attempt counts from -2 to MaxAttempts.
MaxAttempts == 8

\* ------------------------------------------------------- program constants
MENU == "menu"
PLAYING == "playing"
GAME_OVER == "game_over"

RED == "RED"
BLUE == "BLUE"
GREEN == "GREEN"
YELLOW == "YELLOW"
PURPLE == "PURPLE"
ORANGE == "ORANGE"
CYAN == "CYAN"

LEVEL_CONFIGS ==
  << [colors |-> <<RED, BLUE, GREEN>>, max_trains |-> 8,
      mistakes_allowed |-> 3, modifiers |-> << >>],
     [colors |-> <<RED, BLUE, GREEN, YELLOW>>, max_trains |-> 10,
      mistakes_allowed |-> 3, modifiers |-> << >>],
     [colors |-> <<RED, BLUE, GREEN, YELLOW, PURPLE>>, max_trains |-> 12,
      mistakes_allowed |-> 2, modifiers |-> <<"express_signals">>],
     [colors |-> <<RED, BLUE, GREEN, YELLOW, PURPLE, ORANGE, CYAN>>, max_trains |-> 14,
      mistakes_allowed |-> 2, modifiers |-> <<"express_signals">>],
     [colors |-> <<RED, BLUE, GREEN, YELLOW, PURPLE, ORANGE, CYAN>>, max_trains |-> 15,
      mistakes_allowed |-> 2, modifiers |-> <<"dense_fog">>],
     [colors |-> <<RED, BLUE, GREEN, YELLOW, PURPLE, ORANGE, CYAN>>, max_trains |-> 16,
      mistakes_allowed |-> 1, modifiers |-> <<"express_signals", "dense_fog">>] >>

available_modes == <<"campaign", "endless">>
difficulty_modes == <<"standard", "relaxed", "expert">>

\* max_mistakes while zen mode is on
ZenMaxMistakes == 999
\* cap of max_trains in endless mode
EndlessMaxTrainsCap == 18

\* ----------------------------------------------------------------- helpers
Max(a, b) == IF a >= b THEN a ELSE b
Min(a, b) == IF a <= b THEN a ELSE b

Contains(seq, x) == \E i \in 1..Len(seq) : seq[i] = x

\* list(dict.fromkeys(seq)): drop repeated entries, keep first occurrences
RECURSIVE Dedupe(_)
Dedupe(seq) ==
  IF seq = << >> THEN << >>
  ELSE LET init == Dedupe(SubSeq(seq, 1, Len(seq) - 1))
           last == seq[Len(seq)]
       IN IF Contains(init, last) THEN init ELSE Append(init, last)

Seeds == 0..MaxSeed

\* the colours random.choice hands out for one queue
ChooseColor(colors, seed, i) == colors[((seed + i) % Len(colors)) + 1]

\* --------------------------------------------------------- ConfigValidator
\* A value of the parsed JSON: t is its python type ("int", "bool", "float",
\* "str", "list", "dict", "null", or "absent" for a key the dict does not
\* have), i its number (True is 1; a float is written by its integer part),
\* s its text and l its items.
J(t, i, s, l) == [t |-> t, i |-> i, s |-> s, l |-> l]
Absent == J("absent", 0, "", << >>)
JNull == J("null", 0, "", << >>)
JInt(n) == J("int", n, "", << >>)
JBool(b) == J("bool", IF b THEN 1 ELSE 0, "", << >>)
JFloat(n) == J("float", n, "", << >>)
JStr(str) == J("str", 0, str, << >>)
JList(l) == J("list", 0, "", l)

\* isinstance(v, int): bool is a subclass of int
isinstance_int(v) == v.t \in {"int", "bool"}

\* dict.get(key, default), entry being what the dict holds under the key
Get(entry, default) == IF entry.t = "absent" THEN default ELSE entry

validate_color(color) ==
  /\ color.t = "list"
  /\ Len(color.l) = 3
  /\ \A k \in 1..Len(color.l) :
       isinstance_int(color.l[k]) /\ 0 <= color.l[k].i /\ color.l[k].i <= 255

WindowDefaults ==
  [width |-> JInt(1280), height |-> JInt(720),
   title |-> JStr("Train Color Matching Game")]

\* the value of config.get(section, {}) for a config without the section
EmptyWindow == [t |-> "dict", width |-> Absent, height |-> Absent, title |-> Absent]

\* validate_window; raised names the exception the call ends with
validate_window(cfg) ==
  LET window == IF cfg.window.t = "absent" THEN EmptyWindow ELSE cfg.window
  IN IF window.t # "dict"
     THEN [raised |-> "AttributeError", width |-> Absent, height |-> Absent,
           title |-> Absent]
     ELSE LET width == Get(window.width, WindowDefaults.width)
              height == Get(window.height, WindowDefaults.height)
              title == Get(window.title, WindowDefaults.title)
          IN [raised |-> "none",
              width |-> IF ~isinstance_int(width) \/ width.i < 800
                        THEN WindowDefaults.width ELSE width,
              height |-> IF ~isinstance_int(height) \/ height.i < 600
                         THEN WindowDefaults.height ELSE height,
              title |-> IF title.t # "str" THEN WindowDefaults.title ELSE title]

ColorNames == {"white", "black", "red", "blue", "green", "gray", "yellow"}

Rgb(r, g, b) == JList(<<JInt(r), JInt(g), JInt(b)>>)

ColorDefaults ==
  [name \in ColorNames |->
     CASE name = "white" -> Rgb(255, 255, 255)
       [] name = "black" -> Rgb(0, 0, 0)
       [] name = "red" -> Rgb(255, 0, 0)
       [] name = "blue" -> Rgb(0, 0, 255)
       [] name = "green" -> Rgb(0, 255, 0)
       [] name = "gray" -> Rgb(128, 128, 128)
       [] name = "yellow" -> Rgb(255, 255, 0)]

EmptyColors == [t |-> "dict", entries |-> [name \in ColorNames |-> Absent]]

validate_colors(cfg) ==
  LET colors == IF cfg.colors.t = "absent" THEN EmptyColors ELSE cfg.colors
  IN IF colors.t # "dict"
     THEN [raised |-> "AttributeError", entries |-> [name \in ColorNames |-> Absent]]
     ELSE [raised |-> "none",
           entries |-> [name \in ColorNames |->
              LET color == Get(colors.entries[name], ColorDefaults[name])
              IN IF ~validate_color(color) THEN ColorDefaults[name] ELSE color]]

\* the window and colors entries of validate_config
validate_config(cfg) ==
  [window |-> validate_window(cfg), colors |-> validate_colors(cfg)]

\* a config without the section (also: no config.json, load_config's {})
NoWindow == [t |-> "absent", width |-> Absent, height |-> Absent, title |-> Absent]
NoColors == [t |-> "absent", entries |-> [name \in ColorNames |-> Absent]]
EmptyConfig == [window |-> NoWindow, colors |-> NoColors]

\* ---------------------------------------------------------------- wrap_text
\* A text is a sequence of characters.  The font has a narrow and a wide
\* letter; font_size is the width font.size(line)[0] of a line.
Glyphs == {"i", "m", " "}
glyph_width(c) == IF c = "m" THEN 3 ELSE 1

RECURSIVE font_size(_)
font_size(line) ==
  IF line = << >> THEN 0 ELSE glyph_width(Head(line)) + font_size(Tail(line))

\* str.split(): the maximal runs of characters other than white space
RECURSIVE split(_)
split(text) ==
  IF text = << >> THEN << >>
  ELSE LET c == Head(text)
           rest == split(Tail(text))
       IN IF c = " " THEN rest
          ELSE IF Len(text) > 1 /\ text[2] # " "
               THEN << <<c>> \o Head(rest) >> \o Tail(rest)
               ELSE << <<c>> >> \o rest

\* the loop over words[1:] of both versions of wrap_text; or_empty is the
\* `or not current_line` of the version in Train-Color-Matcher.py
RECURSIVE WrapWords(_, _, _, _, _)
WrapWords(lines, current_line, words, max_width, or_empty) ==
  IF words = << >> THEN Append(lines, current_line)
  ELSE LET word == Head(words)
           candidate == current_line \o <<" ">> \o word
       IN IF font_size(candidate) <= max_width \/ (or_empty /\ current_line = << >>)
          THEN WrapWords(lines, candidate, Tail(words), max_width, or_empty)
          ELSE WrapWords(Append(lines, current_line), word, Tail(words),
                         max_width, or_empty)

\* wrap_text of train_color_matcher.py
wrap_text(text, max_width) ==
  LET words == split(text)
  IN [raised |-> "none",
      value |-> IF words = << >> THEN << << >> >>
                ELSE WrapWords(<< >>, Head(words), Tail(words), max_width, FALSE)]

\* wrap_text of Train-Color-Matcher.py (a font is always passed)
TCM_wrap_text(text, max_width) ==
  IF max_width <= 0 THEN [raised |-> "ValueError", value |-> << >>]
  ELSE IF text = << >> THEN [raised |-> "none", value |-> << >>]
  ELSE LET words == split(text)
       IN [raised |-> "none",
           value |-> IF words = << >> THEN << >>
                     ELSE WrapWords(<< >>, Head(words), Tail(words), max_width, TRUE)]

\* ------------------------------------------------------- calculate_accuracy
\* calculate_accuracy without the test that correct_attempts <= total_attempts
calculate_accuracy_unchecked(correct_attempts, total_attempts) ==
  IF correct_attempts < 0 \/ total_attempts < 0
  THEN [raised |-> "ValueError", value |-> [num |-> 0, den |-> 1]]
  ELSE IF total_attempts = 0
  THEN [raised |-> "none", value |-> [num |-> 0, den |-> 1]]
  ELSE [raised |-> "none",
        value |-> [num |-> correct_attempts * 100, den |-> total_attempts]]

\* calculate_accuracy; the float it returns is written as the fraction
\* num / den (rounding is not modelled)
calculate_accuracy(correct_attempts, total_attempts) ==
  IF correct_attempts < 0 \/ total_attempts < 0
  THEN [raised |-> "ValueError", value |-> [num |-> 0, den |-> 1]]
  ELSE IF correct_attempts > total_attempts
  THEN [raised |-> "ValueError", value |-> [num |-> 0, den |-> 1]]
  ELSE IF total_attempts = 0
  THEN [raised |-> "none", value |-> [num |-> 0, den |-> 1]]
  ELSE [raised |-> "none",
        value |-> [num |-> correct_attempts * 100, den |-> total_attempts]]

\* no helper function called yet
NoCall == [fn |-> "none"]
NotReturned == [raised |-> "not run", value |-> << >>]

\* --------------------------------------------------------------- the state
VARIABLES
  running,              \* main loop still running
  state,                \* MENU / PLAYING / GAME_OVER
  high_score, endless_high_score,
  game_mode, endless_stage, level_index,
  combo_count, additional_mistakes, base_level_mistakes, max_mistakes,
  zen_mode, game_over_reason, active_modifiers,
  available_colors, max_trains,
  track_trains,         \* sequence of [color, moving]
  selection_trains,     \* sequence of colours
  score, mistakes, current_train_index, all_trains_moving,
  selected_train_index, difficulty_mode_index, show_settings,
  config,               \* the parsed config.json
  validated,            \* what ConfigValidator made of it
  call,                 \* a call of a helper function: its name and arguments
  returned              \* what the call returned or raised

\* the fields of the game object
game_vars == << running, state, high_score, endless_high_score, game_mode,
               endless_stage, level_index, combo_count, additional_mistakes,
               base_level_mistakes, max_mistakes, zen_mode, game_over_reason,
               active_modifiers, available_colors, max_trains, track_trains,
               selection_trains, score, mistakes, current_train_index,
               all_trains_moving, selected_train_index, difficulty_mode_index,
               show_settings >>

vars == << game_vars, config, validated, call, returned >>

\* the game object as a record
Self ==
  [ running |-> running, state |-> state, high_score |-> high_score,
    endless_high_score |-> endless_high_score, game_mode |-> game_mode,
    endless_stage |-> endless_stage, level_index |-> level_index,
    combo_count |-> combo_count, additional_mistakes |-> additional_mistakes,
    base_level_mistakes |-> base_level_mistakes, max_mistakes |-> max_mistakes,
    zen_mode |-> zen_mode, game_over_reason |-> game_over_reason,
    active_modifiers |-> active_modifiers, available_colors |-> available_colors,
    max_trains |-> max_trains, track_trains |-> track_trains,
    selection_trains |-> selection_trains, score |-> score,
    mistakes |-> mistakes, current_train_index |-> current_train_index,
    all_trains_moving |-> all_trains_moving,
    selected_train_index |-> selected_train_index,
    difficulty_mode_index |-> difficulty_mode_index,
    show_settings |-> show_settings ]

\* store the record back into the fields
Store(g) ==
  /\ running' = g.running
  /\ state' = g.state
  /\ high_score' = g.high_score
  /\ endless_high_score' = g.endless_high_score
  /\ game_mode' = g.game_mode
  /\ endless_stage' = g.endless_stage
  /\ level_index' = g.level_index
  /\ combo_count' = g.combo_count
  /\ additional_mistakes' = g.additional_mistakes
  /\ base_level_mistakes' = g.base_level_mistakes
  /\ max_mistakes' = g.max_mistakes
  /\ zen_mode' = g.zen_mode
  /\ game_over_reason' = g.game_over_reason
  /\ active_modifiers' = g.active_modifiers
  /\ available_colors' = g.available_colors
  /\ max_trains' = g.max_trains
  /\ track_trains' = g.track_trains
  /\ selection_trains' = g.selection_trains
  /\ score' = g.score
  /\ mistakes' = g.mistakes
  /\ current_train_index' = g.current_train_index
  /\ all_trains_moving' = g.all_trains_moving
  /\ selected_train_index' = g.selected_train_index
  /\ difficulty_mode_index' = g.difficulty_mode_index
  /\ show_settings' = g.show_settings
  /\ UNCHANGED << config, validated, call, returned >>

\* ------------------------------------------------------------ Game methods
update_mistake_limits(g, base_value) ==
  LET b == Max(1, base_value)
  IN [g EXCEPT !.base_level_mistakes = b,
               !.max_mistakes = IF g.zen_mode THEN ZenMaxMistakes
                                ELSE Max(1, b + g.additional_mistakes)]

_reset_modifier_runtime(g) ==
  [g EXCEPT !.active_modifiers = Dedupe(g.active_modifiers)]

\* apply_level_rules without the express signals unlocked at stage 2
apply_level_rules_noexpress(g) ==
  IF g.game_mode = "endless"
  THEN LET base_index == Min(g.endless_stage, Len(LEVEL_CONFIGS) - 1)
           base_config == LEVEL_CONFIGS[base_index + 1]
           penalty == g.endless_stage \div 3
           base_value == Max(1, base_config.mistakes_allowed - penalty)
           m0 == base_config.modifiers
           m1 == m0
           m2 == IF g.endless_stage >= 4 /\ ~Contains(m1, "dense_fog")
                 THEN Append(m1, "dense_fog") ELSE m1
           g1 == [g EXCEPT !.available_colors = base_config.colors,
                           !.max_trains = Min(base_config.max_trains + g.endless_stage \div 2,
                                              EndlessMaxTrainsCap),
                           !.active_modifiers = m2]
       IN _reset_modifier_runtime(update_mistake_limits(g1, base_value))
  ELSE LET level_config == LEVEL_CONFIGS[g.level_index + 1]
           g1 == [g EXCEPT !.available_colors = level_config.colors,
                           !.max_trains = level_config.max_trains,
                           !.active_modifiers = level_config.modifiers]
       IN _reset_modifier_runtime(update_mistake_limits(g1, level_config.mistakes_allowed))

apply_level_rules(g) ==
  IF g.game_mode = "endless"
  THEN LET base_index == Min(g.endless_stage, Len(LEVEL_CONFIGS) - 1)
           base_config == LEVEL_CONFIGS[base_index + 1]
           penalty == g.endless_stage \div 3
           base_value == Max(1, base_config.mistakes_allowed - penalty)
           m0 == base_config.modifiers
           m1 == IF g.endless_stage >= 2 /\ ~Contains(m0, "express_signals")
                 THEN Append(m0, "express_signals") ELSE m0
           m2 == IF g.endless_stage >= 4 /\ ~Contains(m1, "dense_fog")
                 THEN Append(m1, "dense_fog") ELSE m1
           g1 == [g EXCEPT !.available_colors = base_config.colors,
                           !.max_trains = Min(base_config.max_trains + g.endless_stage \div 2,
                                              EndlessMaxTrainsCap),
                           !.active_modifiers = m2]
       IN _reset_modifier_runtime(update_mistake_limits(g1, base_value))
  ELSE LET level_config == LEVEL_CONFIGS[g.level_index + 1]
           g1 == [g EXCEPT !.available_colors = level_config.colors,
                           !.max_trains = level_config.max_trains,
                           !.active_modifiers = level_config.modifiers]
       IN _reset_modifier_runtime(update_mistake_limits(g1, level_config.mistakes_allowed))

\* initialize_trains keeping the selection trains of the level before
initialize_trains_stale(g, seed) ==
  LET track == [i \in 1..g.max_trains |->
                  [color |-> ChooseColor(g.available_colors, seed, i - 1),
                   moving |-> FALSE]]
      selection == IF g.selection_trains # << >>
                   THEN g.selection_trains ELSE g.available_colors
  IN [g EXCEPT !.track_trains = track,
               !.selection_trains = selection,
               !.selected_train_index =
                  IF selection # << >>
                  THEN Min(g.selected_train_index, Len(selection) - 1)
                  ELSE 0]

\* initialize_trains keeping selected_train_index as it is
initialize_trains_noclamp(g, seed) ==
  LET track == [i \in 1..g.max_trains |->
                  [color |-> ChooseColor(g.available_colors, seed, i - 1),
                   moving |-> FALSE]]
      selection == g.available_colors
  IN [g EXCEPT !.track_trains = track,
               !.selection_trains = selection]

initialize_trains(g, seed) ==
  LET track == [i \in 1..g.max_trains |->
                  [color |-> ChooseColor(g.available_colors, seed, i - 1),
                   moving |-> FALSE]]
      selection == g.available_colors
  IN [g EXCEPT !.track_trains = track,
               !.selection_trains = selection,
               !.selected_train_index =
                  IF selection # << >>
                  THEN Min(g.selected_train_index, Len(selection) - 1)
                  ELSE 0]

\* Game.reset_game staying on the level that was reached
Game_reset_game_keeplevel(g, seed) ==
  LET g1 == [g EXCEPT !.track_trains = << >>,
                      !.selection_trains = << >>,
                      !.score = 0,
                      !.mistakes = 0,
                      !.current_train_index = 0,
                      !.all_trains_moving = FALSE]
      g2 == initialize_trains(apply_level_rules(g1), seed)
  IN [g2 EXCEPT !.combo_count = 0, !.game_over_reason = "none"]

Game_reset_game(g, seed) ==
  LET g1 == [g EXCEPT !.track_trains = << >>,
                      !.selection_trains = << >>,
                      !.score = 0,
                      !.mistakes = 0,
                      !.current_train_index = 0,
                      !.all_trains_moving = FALSE,
                      !.level_index = 0,
                      !.endless_stage = 0]
      g2 == initialize_trains(apply_level_rules(g1), seed)
  IN [g2 EXCEPT !.combo_count = 0, !.game_over_reason = "none"]

\* ModernGame.reset_game
reset_game(g, seed) ==
  [Game_reset_game(g, seed) EXCEPT !.show_settings = FALSE]

get_current_high_score(g) ==
  IF g.game_mode = "campaign" THEN g.high_score ELSE g.endless_high_score



\* on_correct_match stepping over a train: the index is advanced by 2
on_correct_match_skip(g) ==
  LET i == g.current_train_index + 1
      combo == g.combo_count + 1
      index == g.current_train_index + 2
      g1 == [g EXCEPT !.track_trains[i].moving = TRUE,
                      !.score = g.score + 1,
                      !.current_train_index = index,
                      !.combo_count = combo,
                      !.mistakes = IF combo % 4 = 0 /\ g.mistakes > 0
                                   THEN g.mistakes - 1 ELSE g.mistakes]
  IN IF index >= Len(g.track_trains)
     THEN [g1 EXCEPT !.all_trains_moving = TRUE]
     ELSE g1

\* on_correct_match forgiving on every 4th match overall (score) instead of
\* every 4th consecutive one (combo_count)
on_correct_match_overall(g) ==
  LET i == g.current_train_index + 1
      combo == g.combo_count + 1
      index == g.current_train_index + 1
      g1 == [g EXCEPT !.track_trains[i].moving = TRUE,
                      !.score = g.score + 1,
                      !.current_train_index = index,
                      !.combo_count = combo,
                      !.mistakes = IF (g.score + 1) % 4 = 0 /\ g.mistakes > 0
                                   THEN g.mistakes - 1 ELSE g.mistakes]
  IN IF index >= Len(g.track_trains)
     THEN [g1 EXCEPT !.all_trains_moving = TRUE]
     ELSE g1

\* on_correct_match forgiving every mistake at once on a 4th consecutive match
on_correct_match_forgive_all(g) ==
  LET i == g.current_train_index + 1
      combo == g.combo_count + 1
      index == g.current_train_index + 1
      g1 == [g EXCEPT !.track_trains[i].moving = TRUE,
                      !.score = g.score + 1,
                      !.current_train_index = index,
                      !.combo_count = combo,
                      !.mistakes = IF combo % 4 = 0 /\ g.mistakes > 0
                                   THEN 0 ELSE g.mistakes]
  IN IF index >= Len(g.track_trains)
     THEN [g1 EXCEPT !.all_trains_moving = TRUE]
     ELSE g1

on_correct_match(g) ==
  LET i == g.current_train_index + 1
      combo == g.combo_count + 1
      index == g.current_train_index + 1
      g1 == [g EXCEPT !.track_trains[i].moving = TRUE,
                      !.score = g.score + 1,
                      !.current_train_index = index,
                      !.combo_count = combo,
                      !.mistakes = IF combo % 4 = 0 /\ g.mistakes > 0
                                   THEN g.mistakes - 1 ELSE g.mistakes]
  IN IF index >= Len(g.track_trains)
     THEN [g1 EXCEPT !.all_trains_moving = TRUE]
     ELSE g1


\* on_wrong_match ending the session only when mistakes > max_mistakes
on_wrong_match_strict(g) ==
  LET g1 == [g EXCEPT !.combo_count = 0, !.mistakes = g.mistakes + 1]
  IN IF g.zen_mode THEN g1
     ELSE IF g1.mistakes > g1.max_mistakes
     THEN LET g2 == [g1 EXCEPT !.state = GAME_OVER, !.game_over_reason = "mistakes"]
          IN IF g.game_mode = "endless"
             THEN [g2 EXCEPT !.endless_high_score = Max(g.endless_high_score, g.score)]
             ELSE [g2 EXCEPT !.high_score = Max(g.high_score, g.score)]
     ELSE g1

\* on_wrong_match storing the score as the high score without max()
on_wrong_match_overwrite(g) ==
  LET g1 == [g EXCEPT !.combo_count = 0, !.mistakes = g.mistakes + 1]
  IN IF g.zen_mode THEN g1
     ELSE IF g1.mistakes >= g1.max_mistakes
     THEN LET g2 == [g1 EXCEPT !.state = GAME_OVER, !.game_over_reason = "mistakes"]
          IN IF g.game_mode = "endless"
             THEN [g2 EXCEPT !.endless_high_score = g.score]
             ELSE [g2 EXCEPT !.high_score = g.score]
     ELSE g1

\* on_wrong_match returning for zen mode before the combo is reset
on_wrong_match_zen_first(g) ==
  IF g.zen_mode THEN [g EXCEPT !.mistakes = g.mistakes + 1]
  ELSE LET g1 == [g EXCEPT !.combo_count = 0, !.mistakes = g.mistakes + 1]
       IN IF g1.mistakes >= g1.max_mistakes
          THEN LET g2 == [g1 EXCEPT !.state = GAME_OVER, !.game_over_reason = "mistakes"]
               IN IF g.game_mode = "endless"
                  THEN [g2 EXCEPT !.endless_high_score = Max(g.endless_high_score, g.score)]
                  ELSE [g2 EXCEPT !.high_score = Max(g.high_score, g.score)]
          ELSE g1

\* on_wrong_match recording the score of a lost game under the other mode
on_wrong_match_swapped(g) ==
  LET g1 == [g EXCEPT !.combo_count = 0, !.mistakes = g.mistakes + 1]
  IN IF g.zen_mode THEN g1
     ELSE IF g1.mistakes >= g1.max_mistakes
     THEN LET g2 == [g1 EXCEPT !.state = GAME_OVER, !.game_over_reason = "mistakes"]
          IN IF g.game_mode = "endless"
             THEN [g2 EXCEPT !.high_score = Max(g.high_score, g.score)]
             ELSE [g2 EXCEPT !.endless_high_score = Max(g.endless_high_score, g.score)]
     ELSE g1

on_wrong_match(g) ==
  LET g1 == [g EXCEPT !.combo_count = 0, !.mistakes = g.mistakes + 1]
  IN IF g.zen_mode THEN g1
     ELSE IF g1.mistakes >= g1.max_mistakes
     THEN LET g2 == [g1 EXCEPT !.state = GAME_OVER, !.game_over_reason = "mistakes"]
          IN IF g.game_mode = "endless"
             THEN [g2 EXCEPT !.endless_high_score = Max(g.endless_high_score, g.score)]
             ELSE [g2 EXCEPT !.high_score = Max(g.high_score, g.score)]
     ELSE g1


\* handle_level_completion taking a mistake back without the floor at 0
handle_level_completion_nofloor(g, seed) ==
  IF g.game_mode = "endless"
  THEN LET stage == g.endless_stage + 1
           g1 == [g EXCEPT !.endless_stage = stage,
                           !.mistakes = g.mistakes - 1,
                           !.combo_count = 0,
                           !.level_index = Min(stage, Len(LEVEL_CONFIGS) - 1)]
       IN initialize_trains(apply_level_rules(g1), seed)
  ELSE IF g.level_index < Len(LEVEL_CONFIGS) - 1
  THEN LET g1 == [g EXCEPT !.level_index = g.level_index + 1,
                           !.mistakes = 0,
                           !.combo_count = 0]
       IN initialize_trains(apply_level_rules(g1), seed)
  ELSE [g EXCEPT !.state = GAME_OVER,
                 !.game_over_reason = "victory",
                 !.high_score = Max(g.high_score, g.score)]

\* handle_level_completion carrying the mistakes over to the next campaign level
handle_level_completion_keep(g, seed) ==
  IF g.game_mode = "endless"
  THEN LET stage == g.endless_stage + 1
           g1 == [g EXCEPT !.endless_stage = stage,
                           !.mistakes = Max(0, g.mistakes - 1),
                           !.combo_count = 0,
                           !.level_index = Min(stage, Len(LEVEL_CONFIGS) - 1)]
       IN initialize_trains(apply_level_rules(g1), seed)
  ELSE IF g.level_index < Len(LEVEL_CONFIGS) - 1
  THEN LET g1 == [g EXCEPT !.level_index = g.level_index + 1,
                           !.combo_count = 0]
       IN initialize_trains(apply_level_rules(g1), seed)
  ELSE [g EXCEPT !.state = GAME_OVER,
                 !.game_over_reason = "victory",
                 !.high_score = Max(g.high_score, g.score)]

\* handle_level_completion ending the campaign without recording the score
handle_level_completion_nohigh(g, seed) ==
  IF g.game_mode = "endless"
  THEN LET stage == g.endless_stage + 1
           g1 == [g EXCEPT !.endless_stage = stage,
                           !.mistakes = Max(0, g.mistakes - 1),
                           !.combo_count = 0,
                           !.level_index = Min(stage, Len(LEVEL_CONFIGS) - 1)]
       IN initialize_trains(apply_level_rules(g1), seed)
  ELSE IF g.level_index < Len(LEVEL_CONFIGS) - 1
  THEN LET g1 == [g EXCEPT !.level_index = g.level_index + 1,
                           !.mistakes = 0,
                           !.combo_count = 0]
       IN initialize_trains(apply_level_rules(g1), seed)
  ELSE [g EXCEPT !.state = GAME_OVER,
                 !.game_over_reason = "victory"]

\* handle_level_completion carrying the combo over to the next endless stage
handle_level_completion_combo(g, seed) ==
  IF g.game_mode = "endless"
  THEN LET stage == g.endless_stage + 1
           g1 == [g EXCEPT !.endless_stage = stage,
                           !.mistakes = Max(0, g.mistakes - 1),
                           !.level_index = Min(stage, Len(LEVEL_CONFIGS) - 1)]
       IN initialize_trains(apply_level_rules(g1), seed)
  ELSE IF g.level_index < Len(LEVEL_CONFIGS) - 1
  THEN LET g1 == [g EXCEPT !.level_index = g.level_index + 1,
                           !.mistakes = 0,
                           !.combo_count = 0]
       IN initialize_trains(apply_level_rules(g1), seed)
  ELSE [g EXCEPT !.state = GAME_OVER,
                 !.game_over_reason = "victory",
                 !.high_score = Max(g.high_score, g.score)]

handle_level_completion(g, seed) ==
  IF g.game_mode = "endless"
  THEN LET stage == g.endless_stage + 1
           g1 == [g EXCEPT !.endless_stage = stage,
                           !.mistakes = Max(0, g.mistakes - 1),
                           !.combo_count = 0,
                           !.level_index = Min(stage, Len(LEVEL_CONFIGS) - 1)]
       IN initialize_trains(apply_level_rules(g1), seed)
  ELSE IF g.level_index < Len(LEVEL_CONFIGS) - 1
  THEN LET g1 == [g EXCEPT !.level_index = g.level_index + 1,
                           !.mistakes = 0,
                           !.combo_count = 0]
       IN initialize_trains(apply_level_rules(g1), seed)
  ELSE [g EXCEPT !.state = GAME_OVER,
                 !.game_over_reason = "victory",
                 !.high_score = Max(g.high_score, g.score)]

\* Train.move for the trains of the queue during one frame: when `leave`,
\* the moving train that started first goes out of bounds and stops
MoveTrains(trains, leave) ==
  LET movingIdx == {i \in 1..Len(trains) : trains[i].moving}
  IN IF leave /\ movingIdx # {}
     THEN LET first == CHOOSE i \in movingIdx : \A j \in movingIdx : i <= j
          IN [trains EXCEPT ![first].moving = FALSE]
     ELSE trains

\* Game.update (ModernGame.update adds only presentation)
\* update calling handle_level_completion without clearing all_trains_moving
update_keepflag(g, leave, seed) ==
  IF g.state = PLAYING
  THEN LET g1 == [g EXCEPT !.track_trains = MoveTrains(g.track_trains, leave)]
       IN IF g1.all_trains_moving
             /\ \A i \in 1..Len(g1.track_trains) : ~g1.track_trains[i].moving
          THEN handle_level_completion(g1, seed)
          ELSE g1
  ELSE g

update(g, leave, seed) ==
  IF g.state = PLAYING
  THEN LET g1 == [g EXCEPT !.track_trains = MoveTrains(g.track_trains, leave)]
       IN IF g1.all_trains_moving
             /\ \A i \in 1..Len(g1.track_trains) : ~g1.track_trains[i].moving
          THEN handle_level_completion([g1 EXCEPT !.all_trains_moving = FALSE], seed)
          ELSE g1
  ELSE g

\* ------------------------------------------------------ ModernGame methods
DifficultyModifier(mode) ==
  CASE mode = "standard" -> 0
    [] mode = "relaxed" -> 1
    [] mode = "expert" -> -1
    [] OTHER -> 0

\* cycle_difficulty recomputing the limit from the first level's allowance
cycle_difficulty_firstlevel(g) ==
  LET idx == (g.difficulty_mode_index + 1) % Len(difficulty_modes)
      g1 == [g EXCEPT !.difficulty_mode_index = idx,
                      !.additional_mistakes = DifficultyModifier(difficulty_modes[idx + 1])]
  IN update_mistake_limits(g1, LEVEL_CONFIGS[1].mistakes_allowed)

cycle_difficulty(g) ==
  LET idx == (g.difficulty_mode_index + 1) % Len(difficulty_modes)
      g1 == [g EXCEPT !.difficulty_mode_index = idx,
                      !.additional_mistakes = DifficultyModifier(difficulty_modes[idx + 1])]
  IN update_mistake_limits(g1, g1.base_level_mistakes)

toggle_zen_mode(g) ==
  LET g1 == [g EXCEPT !.zen_mode = ~g.zen_mode]
  IN update_mistake_limits(g1, g1.base_level_mistakes)

cycle_mode(g, seed) ==
  LET current_index == CHOOSE i \in 1..Len(available_modes) : available_modes[i] = g.game_mode
      g1 == [g EXCEPT !.game_mode = available_modes[(current_index % Len(available_modes)) + 1],
                      !.state = MENU]
  IN reset_game(g1, seed)


\* match_train treating a match attempt on a finished queue as a wrong match
match_train_exhausted_wrong(g) ==
  IF g.current_train_index < Len(g.track_trains)
  THEN LET selected_train == g.selection_trains[g.selected_train_index + 1]
           current_train == g.track_trains[g.current_train_index + 1]
       IN IF selected_train = current_train.color
          THEN on_correct_match(g)
          ELSE on_wrong_match(g)
  ELSE on_wrong_match(g)

\* match_train moving on to the next train after a wrong match as well
match_train_advance(g) ==
  IF g.current_train_index < Len(g.track_trains)
  THEN LET selected_train == g.selection_trains[g.selected_train_index + 1]
           current_train == g.track_trains[g.current_train_index + 1]
       IN IF selected_train = current_train.color
          THEN on_correct_match(g)
          ELSE [on_wrong_match(g) EXCEPT !.current_train_index = g.current_train_index + 1]
  ELSE g

match_train(g) ==
  IF g.current_train_index < Len(g.track_trains)
  THEN LET selected_train == g.selection_trains[g.selected_train_index + 1]
           current_train == g.track_trains[g.current_train_index + 1]
       IN IF selected_train = current_train.color
          THEN on_correct_match(g)
          ELSE on_wrong_match(g)
  ELSE g


\* handle_keyboard_input without the check that the game is being played
handle_keyboard_input_anystate(g, key) ==
  CASE key = "LEFT" ->
         [g EXCEPT !.selected_train_index =
            (g.selected_train_index - 1) % Len(g.selection_trains)]
    [] key = "RIGHT" ->
         [g EXCEPT !.selected_train_index =
            (g.selected_train_index + 1) % Len(g.selection_trains)]
    [] key = "SPACE" -> match_train(g)
    [] OTHER -> g

\* handle_keyboard_input; key is "LEFT", "RIGHT" or "SPACE" (K_SPACE / K_RETURN)
handle_keyboard_input(g, key) ==
  IF g.state = PLAYING
  THEN CASE key = "LEFT" ->
              [g EXCEPT !.selected_train_index =
                 (g.selected_train_index - 1) % Len(g.selection_trains)]
         [] key = "RIGHT" ->
              [g EXCEPT !.selected_train_index =
                 (g.selected_train_index + 1) % Len(g.selection_trains)]
         [] key = "SPACE" -> match_train(g)
         [] OTHER -> g
  ELSE g


\* what a handler lets its caller know: the message match_train adds, or
\* "error" where a handler raises or returns an error.  Neither handler has a
\* raise, an assert or a return value.
match_train_report(g) ==
  IF g.current_train_index < Len(g.track_trains)
  THEN IF g.selection_trains[g.selected_train_index + 1]
            = g.track_trains[g.current_train_index + 1].color
       THEN "message_correct"
       ELSE "message_wrong"
  ELSE "message_no_trains"

handle_keyboard_input_report(g, key) ==
  IF g.state = PLAYING
  THEN IF key = "SPACE" THEN match_train_report(g) ELSE "none"
  ELSE "none"

\* ------------------------------------------------------------------ clicks
\* window and train geometry (defaults of ConfigValidator)
WIDTH == 1280
HEIGHT == 720
TRAIN_WIDTH == 60
TRAIN_HEIGHT == 30
\* selection trains: y coordinate and spacing
SELECTION_Y == 400
selection_spacing == 120

\* pygame.Rect.collidepoint; a rect is <<x, y, width, height>>, pos is <<x, y>>
collidepoint(rect, pos) ==
  /\ rect[1] <= pos[1] /\ pos[1] < rect[1] + rect[3]
  /\ rect[2] <= pos[2] /\ pos[2] < rect[2] + rect[4]

mute_button == <<WIDTH - 60, 10, 50, 50>>
theme_button == <<WIDTH - 120, 10, 100, 40>>
settings_button == <<WIDTH - 240, 10, 110, 40>>
settings_panel_rect == <<WIDTH \div 2 - 420 \div 2, HEIGHT \div 2 - 430 \div 2, 420, 430>>
SettingsBtn(k) ==
  <<settings_panel_rect[1] + 30, settings_panel_rect[2] + 90 + 70 * k,
    settings_panel_rect[3] - 60, 50>>
language_button == SettingsBtn(0)
difficulty_button == SettingsBtn(1)
symbols_button == SettingsBtn(2)
mode_button == SettingsBtn(3)
zen_button == SettingsBtn(4)
start_button == <<WIDTH \div 2 - 140, HEIGHT \div 2, 280, 60>>
quit_button == <<WIDTH \div 2 - 140, HEIGHT \div 2 + 80, 280, 60>>
play_again_button == <<WIDTH \div 2 - 140, HEIGHT \div 2 + 80, 280, 60>>

\* x coordinate of selection train i (0-based), from initialize_trains
SelectionX(g, i) ==
  WIDTH \div 2 - ((Len(g.available_colors) - 1) * selection_spacing) \div 2
    + i * selection_spacing

\* the hit test of Game.handle_click, as written in the source
SelectionHit(g, i, pos) ==
  /\ SelectionX(g, i) < pos[1] /\ pos[1] < SelectionX(g, i) + TRAIN_WIDTH
  /\ SELECTION_Y < pos[2] /\ pos[2] < pos[2] /\ pos[2] < SELECTION_Y + TRAIN_HEIGHT

\* the loop over selection_trains of Game.handle_click, from train i on
RECURSIVE ClickSelectionTrains(_, _, _)
ClickSelectionTrains(g, pos, i) ==
  IF i >= Len(g.selection_trains) THEN g
  ELSE LET g1 == IF SelectionHit(g, i, pos)
                    /\ g.current_train_index < Len(g.track_trains)
                 THEN IF g.selection_trains[i + 1]
                           = g.track_trains[g.current_train_index + 1].color
                      THEN on_correct_match(g)
                      ELSE on_wrong_match(g)
                 ELSE g
       IN ClickSelectionTrains(g1, pos, i + 1)

\* whether Game.handle_click adds the 'message_click_train' hint: in PLAYING
\* when the loop has left `clicked` False
Game_handle_click_hint(g, pos) ==
  /\ ~collidepoint(mute_button, pos)
  /\ g.state = PLAYING
  /\ \A i \in 0..(Len(g.selection_trains) - 1) : ~SelectionHit(g, i, pos)

\* Game.handle_click; the field `running` holds main()'s loop flag, cleared
\* when the handler returns False
Game_handle_click(g, pos, seed) ==
  IF collidepoint(mute_button, pos) THEN g
  ELSE IF g.state = MENU
  THEN IF collidepoint(start_button, pos)
       THEN reset_game([g EXCEPT !.state = PLAYING], seed)
       ELSE IF collidepoint(quit_button, pos)
       THEN [g EXCEPT !.game_over_reason = "quit", !.running = FALSE]
       ELSE g
  ELSE IF g.state = PLAYING
  THEN ClickSelectionTrains(g, pos, 0)
  ELSE IF g.state = GAME_OVER
  THEN IF collidepoint(play_again_button, pos)
       THEN reset_game([g EXCEPT !.state = PLAYING], seed)
       ELSE IF collidepoint(quit_button, pos)
       THEN [g EXCEPT !.game_over_reason = "quit", !.running = FALSE]
       ELSE g
  ELSE g

\* ModernGame.handle_click
handle_click(g, pos, seed) ==
  IF collidepoint(theme_button, pos) THEN g
  ELSE IF collidepoint(settings_button, pos)
  THEN [g EXCEPT !.show_settings = ~g.show_settings]
  ELSE IF g.show_settings /\ collidepoint(language_button, pos) THEN g
  ELSE IF g.show_settings /\ collidepoint(difficulty_button, pos) THEN cycle_difficulty(g)
  ELSE IF g.show_settings /\ collidepoint(symbols_button, pos) THEN g
  ELSE IF g.show_settings /\ collidepoint(mode_button, pos) THEN cycle_mode(g, seed)
  ELSE IF g.show_settings /\ collidepoint(zen_button, pos) THEN toggle_zen_mode(g)
  ELSE LET g1 == IF g.show_settings /\ ~collidepoint(settings_panel_rect, pos)
                 THEN [g EXCEPT !.show_settings = FALSE]
                 ELSE g
       IN Game_handle_click(g1, pos, seed)

\* centre of a rect
Centre(rect) == <<rect[1] + rect[3] \div 2, rect[2] + rect[4] \div 2>>

\* the mouse positions that are tried: one on every button (for the buttons a
\* settings button overlaps, a point of the part that stays uncovered), the
\* centre of every selection train, and a point on nothing
ButtonPoints ==
  { <<WIDTH - 15, 30>>, Centre(theme_button), Centre(settings_button),
    Centre(language_button), Centre(difficulty_button), Centre(symbols_button),
    Centre(mode_button), Centre(zen_button),
    <<WIDTH \div 2, HEIGHT \div 2 + 5>>, <<WIDTH \div 2, HEIGHT \div 2 + 82>>,
    <<5, 300>> }

TrainPoints(g) ==
  { <<SelectionX(g, i) + TRAIN_WIDTH \div 2, SELECTION_Y + TRAIN_HEIGHT \div 2>> :
      i \in 0..(Len(g.selection_trains) - 1) }

ClickPoints(g) == ButtonPoints \cup TrainPoints(g)

Keys == {"LEFT", "RIGHT", "SPACE"}


\* ------------------------------------------------------------ construction
\* the fields as Game.__init__ sets them before it calls reset_game, with
\* the fields ModernGame.__init__ sets afterwards
Constructed ==
  [ running |-> TRUE, state |-> MENU, high_score |-> 0, endless_high_score |-> 0,
    game_mode |-> "campaign", endless_stage |-> 0, level_index |-> 0,
    combo_count |-> 0, additional_mistakes |-> 0, base_level_mistakes |-> 3,
    max_mistakes |-> 3, zen_mode |-> FALSE, game_over_reason |-> "none",
    active_modifiers |-> << >>, available_colors |-> << >>, max_trains |-> 0,
    track_trains |-> << >>, selection_trains |-> << >>, score |-> 0,
    mistakes |-> 0, current_train_index |-> 0, all_trains_moving |-> FALSE,
    selected_train_index |-> 0, difficulty_mode_index |-> 0,
    show_settings |-> FALSE ]

\* the fields hold the record g
Load(g) ==
  /\ running = g.running
  /\ state = g.state
  /\ high_score = g.high_score
  /\ endless_high_score = g.endless_high_score
  /\ game_mode = g.game_mode
  /\ endless_stage = g.endless_stage
  /\ level_index = g.level_index
  /\ combo_count = g.combo_count
  /\ additional_mistakes = g.additional_mistakes
  /\ base_level_mistakes = g.base_level_mistakes
  /\ max_mistakes = g.max_mistakes
  /\ zen_mode = g.zen_mode
  /\ game_over_reason = g.game_over_reason
  /\ active_modifiers = g.active_modifiers
  /\ available_colors = g.available_colors
  /\ max_trains = g.max_trains
  /\ track_trains = g.track_trains
  /\ selection_trains = g.selection_trains
  /\ score = g.score
  /\ mistakes = g.mistakes
  /\ current_train_index = g.current_train_index
  /\ all_trains_moving = g.all_trains_moving
  /\ selected_train_index = g.selected_train_index
  /\ difficulty_mode_index = g.difficulty_mode_index
  /\ show_settings = g.show_settings

\* CONFIG = load_config() without a config.json, then ModernGame()
Init ==
  /\ config = EmptyConfig
  /\ validated = validate_config(EmptyConfig)
  /\ call = NoCall
  /\ returned = NotReturned
  /\ \E seed \in Seeds : Load(reset_game(Constructed, seed))

\* ----------------------------------------------------------------- actions
\* what the next SPACE / RETURN key press does in the current state
HasTarget == current_train_index < Len(track_trains)
TargetColor == track_trains[current_train_index + 1].color
SelectedColor == selection_trains[selected_train_index + 1]
IsCorrect == state = PLAYING /\ HasTarget /\ SelectedColor = TargetColor
IsWrong == state = PLAYING /\ HasTarget /\ SelectedColor # TargetColor

\* MOUSEBUTTONDOWN event of main(): game.handle_click(event.pos)
Click(pos) ==
  /\ running
  /\ \E seed \in Seeds : Store(handle_click(Self, pos, seed))

\* KEYDOWN event of main(): game.handle_keyboard_input(event)
Key(key) ==
  /\ running
  /\ Store(handle_keyboard_input(Self, key))

\* one frame of main(): game.update(dt)
Update ==
  /\ running
  /\ \E leave \in BOOLEAN, seed \in Seeds :
       Store(update(Self, leave, seed))

\* the points of the settings panel's buttons and of the button that opens it
PanelPoints ==
  { Centre(settings_button), Centre(language_button), Centre(difficulty_button),
    Centre(symbols_button), Centre(mode_button), Centre(zen_button) }

\* --- Spec: every input, short sessions
HandleClick == \E pos \in ClickPoints(Self) : Click(pos)

HandleKeyboardInput ==
  \E key \in Keys :
    /\ (key = "SPACE" /\ IsCorrect) => score < MaxScore
    /\ (key = "SPACE" /\ IsWrong) => mistakes < MistakeCap
    /\ Key(key)

Next == HandleClick \/ HandleKeyboardInput \/ Update

Spec == Init /\ [][Next]_vars

\* --- SpecPlay: whole sessions in either mode.  The settings panel is used
\* in the menu only, and there only to switch the mode.
MenuPoints == { Centre(settings_button), Centre(mode_button) }

PlayClick ==
  \E pos \in ClickPoints(Self) :
    /\ pos \in PanelPoints => (state = MENU /\ pos \in MenuPoints)
    /\ Click(pos)

PlayKey == \E key \in Keys : Key(key)

NextPlay == PlayClick \/ PlayKey \/ Update

SpecPlay == Init /\ [][NextPlay]_vars

\* --- SpecPlayFair: whole sessions of a player who never makes a mistake,
\* where main() keeps calling update() and so a moving train keeps moving
\* until it has left the screen
FairKey ==
  \E key \in {"RIGHT", "SPACE"} :
    /\ key = "RIGHT" => IsWrong
    /\ key = "SPACE" => IsCorrect
    /\ Key(key)

NextFair == PlayClick \/ FairKey \/ Update

\* main() calls update() in every frame: once the last train of the queue is
\* on its way out, it leaves the screen after finitely many frames and
\* update() clears all_trains_moving
TrainsLeave ==
  /\ state = PLAYING
  /\ all_trains_moving
  /\ all_trains_moving' = FALSE

SpecPlayFair == Init /\ [][NextFair]_vars /\ WF_all_trains_moving(TrainsLeave)

\* --- SpecLevels: whole sessions with every setting.  The player steps to
\* the right while the selected colour is not the target's and makes wrong
\* matches only early in a session.
LevelClick == \E pos \in ClickPoints(Self) : Click(pos)

LevelKey ==
  \E key \in {"RIGHT", "SPACE"} :
    /\ key = "RIGHT" => IsWrong
    /\ (key = "SPACE" /\ IsWrong) => (mistakes < LevelMistakeCap /\ score < MaxScore)
    /\ Key(key)

NextLevels == LevelClick \/ LevelKey \/ Update

SpecLevels == Init /\ [][NextLevels]_vars

\* --- SpecConfig: the validator run on the configs a config.json can hold.
\* The game object is not built yet; its fields hold their first values.
IntsAround(n) == { JInt(k) : k \in (n - ConfigSpan)..(n + ConfigSpan) }

Widths ==
  IntsAround(800) \cup { Absent, JInt(1366), JBool(TRUE), JFloat(1024),
                         JStr("wide"), JNull }
Heights == IntsAround(600) \cup { Absent, JInt(768), JFloat(700), JStr("100") }
Titles == { Absent, JStr("Custom"), JInt(123), JNull }

\* what a config can hold in place of a section that is not a JSON object
NotObjects == {"null", "list", "str", "int"}

Windows ==
  { [t |-> "dict", width |-> w, height |-> h, title |-> ti] :
      w \in Widths, h \in Heights, ti \in Titles }
  \cup { [NoWindow EXCEPT !.t = t] : t \in NotObjects }

Channels ==
  IntsAround(0) \cup IntsAround(255) \cup { JBool(TRUE), JFloat(0), JStr("ff") }
\* every value tried for one palette entry
EntryValues ==
  { JList(<<a, b, c>>) : a, b, c \in Channels }
  \cup { JList(<<a, b>>) : a, b \in IntsAround(255) }
  \cup { JList(<<JInt(1), JInt(2), JInt(3), JInt(4)>>), JList(<< >>),
         JStr("nope"), JInt(255), JNull }
\* the values tried for all entries at once: missing, valid, invalid
SomeValues == { Absent, Rgb(240, 240, 240), Rgb(300, 0, 0) }

ColorSections ==
  { [t |-> "dict", entries |-> e] : e \in [ColorNames -> SomeValues] }
  \cup { [t |-> "dict", entries |-> [EmptyColors.entries EXCEPT ![name] = v]] :
           name \in {"red", "gray"}, v \in EntryValues }
  \cup { [NoColors EXCEPT !.t = t] : t \in NotObjects }

Configs ==
  { [window |-> w, colors |-> NoColors] : w \in Windows }
  \cup { [window |-> NoWindow, colors |-> c] : c \in ColorSections }

NotRunWindow ==
  [raised |-> "not run", width |-> Absent, height |-> Absent, title |-> Absent]
NotRunColors ==
  [raised |-> "not run", entries |-> [name \in ColorNames |-> Absent]]

InitConfig ==
  /\ config \in Configs
  /\ validated = [window |-> NotRunWindow, colors |-> NotRunColors]
  /\ call = NoCall
  /\ returned = NotReturned
  /\ Load(Constructed)

ValidateWindow ==
  /\ validated.window = NotRunWindow
  /\ validated' = [validated EXCEPT !.window = validate_window(config)]
  /\ UNCHANGED << config, game_vars, call, returned >>

ValidateColors ==
  /\ validated.colors = NotRunColors
  /\ validated' = [validated EXCEPT !.colors = validate_colors(config)]
  /\ UNCHANGED << config, game_vars, call, returned >>

NextConfig == ValidateWindow \/ ValidateColors

SpecConfig == InitConfig /\ [][NextConfig]_vars

\* --- SpecWrap: one call of wrap_text, of either version
Texts == UNION { [1..n -> Glyphs] : n \in 0..MaxTextLen }

InitWrap ==
  /\ call \in { [fn |-> f, text |-> t, max_width |-> w] :
                  f \in {"wrap_text", "TCM_wrap_text"}, t \in Texts,
                  w \in 0..MaxWidth }
  /\ returned = NotReturned
  /\ config = EmptyConfig
  /\ validated = validate_config(EmptyConfig)
  /\ Load(Constructed)

WrapText ==
  /\ returned.raised = "not run"
  /\ returned' = IF call.fn = "wrap_text"
                 THEN wrap_text(call.text, call.max_width)
                 ELSE TCM_wrap_text(call.text, call.max_width)
  /\ UNCHANGED << call, config, validated, game_vars >>

SpecWrap == InitWrap /\ [][WrapText]_vars

\* --- SpecAccuracy: one call of calculate_accuracy
InitAccuracy ==
  /\ call \in { [fn |-> "calculate_accuracy", correct_attempts |-> c,
                 total_attempts |-> t] :
                  c \in -2..MaxAttempts, t \in -2..MaxAttempts }
  /\ returned = [raised |-> "not run", value |-> [num |-> 0, den |-> 1]]
  /\ config = EmptyConfig
  /\ validated = validate_config(EmptyConfig)
  /\ Load(Constructed)

CalculateAccuracy ==
  /\ returned.raised = "not run"
  /\ returned' = calculate_accuracy(call.correct_attempts, call.total_attempts)
  /\ UNCHANGED << call, config, validated, game_vars >>

SpecAccuracy == InitAccuracy /\ [][CalculateAccuracy]_vars

\* ------------------------------------------------------------- properties
\* steps named by the handler that takes them
MatchKey == Key("SPACE")
TrainClick == state = PLAYING /\ ~show_settings /\ \E pos \in TrainPoints(Self) : Click(pos)
\* Game.update ran handle_level_completion: only there is all_trains_moving
\* cleared while the game goes on
LevelCompletion == Update /\ state = PLAYING /\ all_trains_moving /\ ~all_trains_moving'

\* C1: a match attempt never decreases current_train_index; a correct match
\* increases it by exactly 1 and a wrong match leaves it unchanged.
C1_IndexPerMatch ==
  [][ /\ (MatchKey /\ IsCorrect) => current_train_index' = current_train_index + 1
      /\ (MatchKey /\ IsWrong) => current_train_index' = current_train_index
      /\ (MatchKey \/ TrainClick) => current_train_index' >= current_train_index ]_vars

\* a session in which a correct and a wrong match have both been made
C1_Witness ==
  state = PLAYING /\ current_train_index >= 1 /\ mistakes >= 1 /\ combo_count = 0

\* C2: every level / stage transition made by handle_level_completion leaves
\* current_train_index = 0 against the freshly generated track_trains.
C2_TransitionResetsIndex ==
  [][ (LevelCompletion /\ state' = PLAYING) => current_train_index' = 0 ]_vars

\* C3: 0 <= current_train_index <= len(track_trains) in every reachable state.
C3_IndexInRange ==
  0 <= current_train_index /\ current_train_index <= Len(track_trains)

\* an endless session stopped at the end of a queue after stage transitions
C3_Witness ==
  /\ state = PLAYING /\ game_mode = "endless" /\ endless_stage >= 2
  /\ current_train_index = Len(track_trains)

\* C4: a wrong match ends the session with reason 'mistakes' if and only if
\* zen mode is off and mistakes, once incremented, reaches max_mistakes;
\* otherwise the state stays PLAYING.
C4_GameOverTrigger ==
  [][ (MatchKey /\ IsWrong) =>
        IF ~zen_mode /\ mistakes + 1 >= max_mistakes
        THEN state' = GAME_OVER /\ game_over_reason' = "mistakes"
        ELSE state' = PLAYING /\ game_over_reason' = game_over_reason ]_vars

\* a session ended by its last allowed mistake
C4_Witness ==
  state = GAME_OVER /\ game_over_reason = "mistakes" /\ ~zen_mode /\ mistakes = max_mistakes

\* C5: a correct match takes one mistake back if and only if the new
\* combo_count is a positive multiple of 4 and mistakes > 0; a wrong match
\* resets combo_count, so the rule counts consecutive correct matches.
C5_Forgiveness ==
  [][ /\ (MatchKey /\ IsCorrect) =>
            /\ combo_count' = combo_count + 1
            /\ mistakes' = IF (combo_count + 1) % 4 = 0 /\ combo_count + 1 > 0 /\ mistakes > 0
                           THEN mistakes - 1 ELSE mistakes
      /\ (MatchKey /\ IsWrong) => combo_count' = 0 ]_vars

\* four correct matches in a row that began with two mistakes: one is forgiven
C5_Witness ==
  state = PLAYING /\ combo_count = 4 /\ mistakes = 1 /\ score > 4

\* C6: mistakes >= 0 in every reachable state.
C6_MistakesNonNegative == mistakes >= 0

\* an endless stage entered without a mistake to take back
C6_Witness ==
  state = PLAYING /\ game_mode = "endless" /\ endless_stage >= 1 /\ mistakes = 0

C8_ZenNeverEnds ==
  [][ (MatchKey /\ IsWrong /\ zen_mode) =>
        /\ state' = PLAYING
        /\ mistakes' = mistakes + 1
        /\ combo_count' = 0 ]_vars

\* ten mistakes made in zen mode and the session still played
C8_Witness == state = PLAYING /\ zen_mode /\ mistakes = 10

\* C9 as stated: the state changes only along MENU -> PLAYING,
\* PLAYING -> GAME_OVER and GAME_OVER -> PLAYING.
C9_OnlySessionTransitions ==
  [][ state' # state =>
        <<state, state'>> \in { <<MENU, PLAYING>>, <<PLAYING, GAME_OVER>>,
                                <<GAME_OVER, PLAYING>> } ]_vars

\* C9 amended: besides MENU -> PLAYING, PLAYING -> GAME_OVER and
\* GAME_OVER -> PLAYING, a mode switch (cycle_mode) takes PLAYING and
\* GAME_OVER back to MENU; the state changes in no other way.
C9_TransitionsWithModeSwitch ==
  [][ state' # state =>
        \/ <<state, state'>> \in { <<MENU, PLAYING>>, <<PLAYING, GAME_OVER>>,
                                   <<GAME_OVER, PLAYING>> }
        \/ /\ state' = MENU
           /\ game_mode' # game_mode
           /\ show_settings ]_vars

\* the menu after a mode switch that followed a finished session
C9_Witness ==
  state = MENU /\ game_mode = "endless" /\ high_score > 0

\* C10: completing a campaign level that is not the last one increases
\* level_index by 1, clears mistakes and combo_count, regenerates both train
\* lists from the new LEVEL_CONFIGS entry and leaves state and score alone.
C10_CampaignLevelUp ==
  [][ (LevelCompletion /\ game_mode = "campaign"
         /\ level_index < Len(LEVEL_CONFIGS) - 1) =>
        /\ level_index' = level_index + 1
        /\ mistakes' = 0
        /\ combo_count' = 0
        /\ Len(track_trains') = LEVEL_CONFIGS[level_index' + 1].max_trains
        /\ \A i \in 1..Len(track_trains') :
             /\ ~track_trains'[i].moving
             /\ Contains(LEVEL_CONFIGS[level_index' + 1].colors, track_trains'[i].color)
        /\ selection_trains' = LEVEL_CONFIGS[level_index' + 1].colors
        /\ state' = PLAYING
        /\ score' = score ]_vars

\* a campaign session that has moved on to a later level
C10_Witness ==
  state = PLAYING /\ game_mode = "campaign" /\ level_index >= 1 /\ score >= 8

\* C11: in campaign mode completing the last level ends the session with
\* reason 'victory' and high_score = max(high_score, score); the reason
\* becomes 'victory' in no other step, and never in endless mode.
C11_Victory ==
  [][ /\ (LevelCompletion /\ game_mode = "campaign"
            /\ level_index = Len(LEVEL_CONFIGS) - 1) =>
            /\ state' = GAME_OVER
            /\ game_over_reason' = "victory"
            /\ high_score' = Max(high_score, score)
      /\ (game_over_reason' = "victory" /\ game_over_reason # "victory") =>
            /\ LevelCompletion
            /\ game_mode = "campaign"
            /\ level_index = Len(LEVEL_CONFIGS) - 1
      /\ game_mode' = "endless" => game_over_reason' # "victory" ]_vars

\* a campaign won, with its score recorded
C11_Witness ==
  /\ state = GAME_OVER /\ game_over_reason = "victory"
  /\ level_index = Len(LEVEL_CONFIGS) - 1 /\ score > 0 /\ high_score = score

\* C12: in endless mode every level completion adds exactly 1 to
\* endless_stage, sets mistakes to max(0, mistakes - 1) and combo_count to 0
\* and keeps the state PLAYING.
C12_EndlessStage ==
  [][ (LevelCompletion /\ game_mode = "endless") =>
        /\ endless_stage' = endless_stage + 1
        /\ mistakes' = Max(0, mistakes - 1)
        /\ combo_count' = 0
        /\ state' = PLAYING
        /\ game_over_reason' = game_over_reason ]_vars

\* stage 2 just entered from the end of stage 1's queue, one mistake left
C12_Witness ==
  /\ state = PLAYING /\ game_mode = "endless" /\ endless_stage = 2
  /\ current_train_index = 10 /\ mistakes = 1 /\ combo_count = 0

\* the modifiers of the base level of an endless stage
BaseModifiers(stage) ==
  LEVEL_CONFIGS[Min(stage, Len(LEVEL_CONFIGS) - 1) + 1].modifiers

\* C13: in endless mode active_modifiers holds 'express_signals' from stage 2
\* on and 'dense_fog' from stage 4 on, besides the modifiers of the base
\* level, and holds no modifier twice.
C13_EndlessModifiers ==
  game_mode = "endless" =>
    /\ endless_stage >= 2 => Contains(active_modifiers, "express_signals")
    /\ endless_stage >= 4 => Contains(active_modifiers, "dense_fog")
    /\ \A i \in 1..Len(BaseModifiers(endless_stage)) :
         Contains(active_modifiers, BaseModifiers(endless_stage)[i])
    /\ \A i, j \in 1..Len(active_modifiers) :
         active_modifiers[i] = active_modifiers[j] => i = j

\* stage 4, whose base level has only the fog: the express signals are added
C13_Witness ==
  /\ game_mode = "endless" /\ endless_stage = 4
  /\ active_modifiers = <<"dense_fog", "express_signals">>

\* the base allowance of the level in force, before the difficulty offset
BaseAllowance ==
  IF game_mode = "endless"
  THEN Max(1, LEVEL_CONFIGS[Min(endless_stage, Len(LEVEL_CONFIGS) - 1) + 1].mistakes_allowed
                - endless_stage \div 3)
  ELSE LEVEL_CONFIGS[level_index + 1].mistakes_allowed

\* C14: while zen mode is off, max_mistakes = max(1, B + additional_mistakes)
\* with B the base allowance of the level in force and additional_mistakes
\* the offset of the difficulty (standard 0, relaxed +1, expert -1).
C14_MaxMistakes ==
  /\ additional_mistakes = DifficultyModifier(difficulty_modes[difficulty_mode_index + 1])
  /\ additional_mistakes \in {0, 1, -1}
  /\ ~zen_mode => max_mistakes = Max(1, BaseAllowance + additional_mistakes)

\* the last campaign level on expert: the floor at 1 is what counts
C14_Witness ==
  /\ state = PLAYING /\ game_mode = "campaign" /\ ~zen_mode
  /\ level_index = Len(LEVEL_CONFIGS) - 1
  /\ difficulty_modes[difficulty_mode_index + 1] = "expert" /\ max_mistakes = 1

\* clicks on the Start / Play Again button
StartClick == state = MENU /\ Click(<<WIDTH \div 2, HEIGHT \div 2 + 5>>)
PlayAgainClick == state = GAME_OVER /\ Click(<<WIDTH \div 2, HEIGHT \div 2 + 82>>)

\* C15: Start in the menu and Play Again after a game over give a PLAYING
\* session at level 0 / stage 0 with score, mistakes, combo_count and
\* current_train_index 0 and a fresh queue of the first level's max_trains
\* trains; mode, difficulty, zen mode and both high scores are unchanged.
C15_StartRestart ==
  [][ (StartClick \/ PlayAgainClick) =>
        /\ state' = PLAYING
        /\ level_index' = 0 /\ endless_stage' = 0
        /\ score' = 0 /\ mistakes' = 0 /\ combo_count' = 0
        /\ current_train_index' = 0
        /\ Len(track_trains') = LEVEL_CONFIGS[1].max_trains
        /\ \A i \in 1..Len(track_trains') :
             /\ ~track_trains'[i].moving
             /\ Contains(LEVEL_CONFIGS[1].colors, track_trains'[i].color)
        /\ selection_trains' = LEVEL_CONFIGS[1].colors
        /\ UNCHANGED << game_mode, difficulty_mode_index, additional_mistakes,
                        zen_mode, high_score, endless_high_score >> ]_vars

\* a session restarted after a won campaign, on relaxed difficulty in zen mode
C15_Witness ==
  /\ state = PLAYING /\ score = 0 /\ current_train_index = 0 /\ level_index = 0
  /\ game_mode = "campaign" /\ high_score > 0
  /\ zen_mode /\ difficulty_modes[difficulty_mode_index + 1] = "relaxed"

\* C16: during a session mistakes decreases only in a level transition (to 0
\* in campaign, by 1 floored at 0 in endless) or by the forgiveness of a 4th
\* consecutive correct match (by 1); it increases only in a wrong match, and
\* then by exactly 1.
C16_MistakesSteps ==
  [][ (state = PLAYING /\ state' # MENU) =>
        /\ mistakes' < mistakes =>
             \/ /\ LevelCompletion
                /\ mistakes' = IF game_mode = "campaign" THEN 0 ELSE mistakes - 1
             \/ /\ (MatchKey \/ TrainClick) /\ IsCorrect
                /\ (combo_count + 1) % 4 = 0
                /\ mistakes' = mistakes - 1
        /\ mistakes' > mistakes =>
             (MatchKey \/ TrainClick) /\ IsWrong /\ mistakes' = mistakes + 1
        /\ (MatchKey /\ IsWrong) => mistakes' = mistakes + 1 ]_vars

\* endless stage 1 just entered with one of two mistakes taken back
C16_Witness ==
  /\ state = PLAYING /\ game_mode = "endless" /\ endless_stage = 1
  /\ current_train_index = 8 /\ mistakes = 1 /\ combo_count = 0

\* the fields of a session that a match attempt works on
SessionFields(g) ==
  << g.score, g.mistakes, g.combo_count, g.current_train_index, g.state,
     g.high_score, g.endless_high_score >>

\* C17: a match attempt made in MENU or GAME_OVER is rejected as an error and
\* changes none of score, mistakes, combo_count, current_train_index, state.
C17_MatchOutsidePlayingRejected ==
  state # PLAYING =>
    /\ handle_keyboard_input_report(Self, "SPACE") = "error"
    /\ SessionFields(handle_keyboard_input(Self, "SPACE")) = SessionFields(Self)

\* C18: in PLAYING with current_train_index >= len(track_trains) a match
\* attempt, by key or by a click on a selection train, changes none of score,
\* mistakes, combo_count, current_train_index, state and the high scores; the
\* key adds the message that no trains remain.
C18_ExhaustedNoOp ==
  (state = PLAYING /\ current_train_index >= Len(track_trains)) =>
    /\ SessionFields(handle_keyboard_input(Self, "SPACE")) = SessionFields(Self)
    /\ handle_keyboard_input_report(Self, "SPACE") = "message_no_trains"
    /\ \A pos \in TrainPoints(Self), seed \in Seeds :
         SessionFields(Game_handle_click(Self, pos, seed)) = SessionFields(Self)

\* a queue finished after a mistake, its last trains still on the screen
C18_Witness ==
  /\ state = PLAYING /\ current_train_index = Len(track_trains)
  /\ all_trains_moving /\ mistakes > 0 /\ score > 0

\* C19: validate_window returns for every config the configured width if it
\* is an int >= 800 and otherwise 1280, the configured height if it is an int
\* >= 600 and otherwise 720, and the configured title if it is a string and
\* otherwise 'Train Color Matching Game'; so width >= 800 and height >= 600.
C19_ValidateWindow ==
  validated.window # NotRunWindow =>
    /\ validated.window.raised = "none"
    /\ validated.window.width =
         IF config.window.width.t = "int" /\ config.window.width.i >= 800
         THEN config.window.width ELSE JInt(1280)
    /\ validated.window.height =
         IF config.window.height.t = "int" /\ config.window.height.i >= 600
         THEN config.window.height ELSE JInt(720)
    /\ validated.window.title =
         IF config.window.title.t = "str"
         THEN config.window.title ELSE JStr("Train Color Matching Game")
    /\ validated.window.width.i >= 800
    /\ validated.window.height.i >= 600

\* C20: validate_colors returns an entry for each of the seven palette
\* names: the configured value if validate_color accepts it (a list of
\* exactly three ints in 0..255) and otherwise the default of that name,
\* whatever the other entries are.
C20_ValidateColors ==
  validated.colors # NotRunColors =>
    /\ validated.colors.raised = "none"
    /\ \A name \in ColorNames :
         validated.colors.entries[name] =
           IF validate_color(config.colors.entries[name])
           THEN config.colors.entries[name] ELSE ColorDefaults[name]

\* C21: for every text and every positive max_width, every line that
\* wrap_text returns has a rendered width of at most max_width.
C21_LinesFit ==
  (returned.raised = "none" /\ call.max_width > 0) =>
    \A k \in 1..Len(returned.value) :
      font_size(returned.value[k]) <= call.max_width

\* C22: calculate_accuracy raises ValueError if and only if correct < 0 or
\* total < 0 or correct > total; otherwise it returns 0 for total = 0 and
\* 100 * correct / total for total > 0, a value in 0..100.
C22_Accuracy ==
  returned.raised # "not run" =>
    /\ returned.raised = "ValueError" <=>
         \/ call.correct_attempts < 0
         \/ call.total_attempts < 0
         \/ call.correct_attempts > call.total_attempts
    /\ returned.raised = "none" =>
         /\ returned.value.den > 0
         /\ call.total_attempts = 0 => returned.value.num = 0
         /\ call.total_attempts > 0 =>
              returned.value.num * call.total_attempts
                = 100 * call.correct_attempts * returned.value.den
         /\ 0 <= returned.value.num
         /\ returned.value.num <= 100 * returned.value.den

\* 3 of 4 attempts: 75
C22_Witness ==
  /\ returned.raised = "none"
  /\ call.correct_attempts = 3 /\ call.total_attempts = 4
  /\ returned.value.num = 75 * returned.value.den

\* C23: whenever the state is PLAYING and current_train_index equals
\* len(track_trains), handle_level_completion eventually runs, provided
\* update() keeps being called: the session does not remain in PLAYING with
\* its queue exhausted.
C23_CompletionFires ==
  (state = PLAYING /\ current_train_index = Len(track_trains))
    ~> (state # PLAYING \/ current_train_index # Len(track_trains))

\* C24: handle_level_completion runs only in PLAYING with current_train_index
\* equal to len(track_trains) and at most once per exhausted queue:
\* all_trains_moving is cleared when it runs, is true only while the queue is
\* exhausted, and is set only by a match that advances current_train_index.
C24_CompletionOnce ==
  [][ /\ LevelCompletion =>
           /\ state = PLAYING
           /\ current_train_index = Len(track_trains)
           /\ ~all_trains_moving'
      /\ all_trains_moving' => current_train_index' = Len(track_trains')
      /\ (~all_trains_moving /\ all_trains_moving') =>
           current_train_index' = current_train_index + 1 ]_vars

\* the second campaign level just entered from the end of the first queue
C24_Witness ==
  /\ state = PLAYING /\ game_mode = "campaign" /\ level_index = 1
  /\ ~all_trains_moving
  /\ current_train_index = 8 /\ Len(track_trains) = 10

\* C25: in PLAYING with the settings panel closed, a click strictly inside a
\* selection train's rectangle is a match attempt of that train's colour
\* against the target (on_correct_match if equal, on_wrong_match otherwise),
\* and the hint is produced only when the click is inside no selection train.
C25_ClickIsMatch ==
  (state = PLAYING /\ ~show_settings) =>
    \A i \in 0..(Len(selection_trains) - 1) :
      \A pos \in TrainPoints(Self), seed \in Seeds :
        ( /\ SelectionX(Self, i) < pos[1]
          /\ pos[1] < SelectionX(Self, i) + TRAIN_WIDTH
          /\ SELECTION_Y < pos[2]
          /\ pos[2] < SELECTION_Y + TRAIN_HEIGHT ) =>
            /\ HasTarget =>
                 handle_click(Self, pos, seed) =
                   IF selection_trains[i + 1] = TargetColor
                   THEN on_correct_match(Self)
                   ELSE on_wrong_match(Self)
            /\ ~Game_handle_click_hint(Self, pos)

\* C26: whenever the state is PLAYING and zen mode is off,
\* mistakes < max_mistakes.
C26_BudgetLeft ==
  (state = PLAYING /\ ~zen_mode) => mistakes < max_mistakes

\* C27: whenever the state is GAME_OVER, the high score of the current game
\* mode, as get_current_high_score returns it, is at least score.
C27_HighScoreRecorded ==
  state = GAME_OVER => get_current_high_score(Self) >= score

\* an endless game lost after some correct matches, its score recorded as
\* the endless high score and not as the campaign's
C27_Witness ==
  /\ state = GAME_OVER /\ game_mode = "endless" /\ game_over_reason = "mistakes"
  /\ score > 0 /\ endless_high_score = score /\ high_score < score

\* the number of trains in the queues of the first n campaign levels
RECURSIVE CompletedTrains(_)
CompletedTrains(n) ==
  IF n = 0 THEN 0 ELSE CompletedTrains(n - 1) + LEVEL_CONFIGS[n].max_trains

\* C28: score is the number of trains of the queues already completed in
\* this session plus current_train_index, and a campaign victory is reached
\* with score equal to the sum of max_trains over LEVEL_CONFIGS (75).
C28_ScoreCounts ==
  /\ (game_mode = "campaign" /\ state = PLAYING) =>
       score = CompletedTrains(level_index) + current_train_index
  /\ (state = GAME_OVER /\ game_over_reason = "victory") =>
       score = CompletedTrains(Len(LEVEL_CONFIGS))

\* C29: in every PLAYING state with current_train_index < len(track_trains)
\* the colour of track_trains[current_train_index] is the colour of exactly
\* one train of selection_trains.
C29_OneCorrectSelection ==
  (state = PLAYING /\ HasTarget) =>
    Cardinality({ i \in 1..Len(selection_trains) :
                    selection_trains[i] = TargetColor }) = 1

\* a target of a colour that the first level does not have
C29_Witness ==
  /\ state = PLAYING /\ HasTarget /\ level_index > 0
  /\ ~Contains(LEVEL_CONFIGS[1].colors, TargetColor)
  /\ \E i \in 1..Len(selection_trains) : selection_trains[i] = TargetColor

\* C30: in every reachable state
\* 0 <= selected_train_index < len(selection_trains).
C30_SelectedInRange ==
  0 <= selected_train_index /\ selected_train_index < Len(selection_trains)

\* a game restarted on the first level with the last of its colours selected
\* after a level with more colours
C30_Witness ==
  /\ state = PLAYING /\ level_index = 0 /\ score = 0
  /\ high_score >= CompletedTrains(1)
  /\ selected_train_index = Len(selection_trains) - 1

====
